---- MODULE Spec2Model ----
(***************************************************************************)
(* Model of mnubo/api_manager.py: the APIManager client (constructor,      *)
(* token fetch, the authenticate decorator, the four resource calls,       *)
(* validate_response and _gzip_encode) together with the wall clock, the   *)
(* token endpoint and the resource endpoint it talks to.                   *)
(***************************************************************************)
EXTENDS Integers, Sequences, FiniteSets, TLC

VARIABLES
    now,                 \* datetime.datetime.now(), in whole seconds
    obj,                 \* "none" | "ready" | "raised": outcome of __init__
    args,                \* the arguments __init__ was called with
    head_sent,           \* requests.head(hostname) was issued
    compression_enabled, \* self.compression_enabled
    access_token,        \* self.access_token
    grant,               \* wire view of the stored token: when its request left, what the endpoint granted
    pc,                  \* per thread: position in the call
    call,                \* per thread: method and body of the call in progress
    requested_at,        \* per thread: local requested_at of fetch_access_token
    token_resp,          \* per thread: response received from the token endpoint
    ret,                 \* per thread: value returned by fetch_access_token
    seen,                \* per thread: what authenticate's freshness check observed
    token_reqs,          \* per thread: token requests the call in progress put on the wire, and when
    sent,                \* per thread: resource request put on the wire
    bearer,              \* per thread: state of the stored token when the request was built from it
    resp,                \* per thread: response received from the resource endpoint
    result,              \* per thread: how the call ended (returned value or raised error)
    double_refresh       \* two token requests have been in flight together for one expired token

vars == <<now, obj, args, head_sent, compression_enabled, access_token, grant,
          pc, call, requested_at, token_resp, ret, seen, token_reqs, sent,
          bearer, resp, result, double_refresh>>

----------------------------------------------------------------------------
(* Bounds *)

MaxTime == 3        \* the clock runs 0..MaxTime
MaxExpires == 2     \* expires_in values the token endpoint grants: 0..MaxExpires
MaxStatus == 600    \* status codes given to validate_response: 100..MaxStatus

Main == "main"
Worker == "worker"
Threads == {Main, Worker}

----------------------------------------------------------------------------
(* Values *)

None == "<None>"
Falsy(x) == x = None \/ x = ""

ClientIds == {None, "", "id"}
ClientSecrets == {None, "", "secret"}

Tokens == {"T1", "T2"}
Contents == {"c1", "c2"}

NoToken == [access_token |-> None, expires_in |-> 0, requested_at |-> 0]
NoGrant == [sent_at |-> 0, expires_in |-> 0]
NoArgs == [client_id |-> None, client_secret |-> None, reachable |-> FALSE]
NoCall == [method |-> None, body |-> <<>>]
NoResponse == [status |-> 0]
NoRequest == [method |-> None]
NoResult == [kind |-> "pending"]
NoSeen == [checked |-> FALSE]
NoTokenReqs == [n |-> 0, sent_at |-> 0]

(* Python values bearer as request bodies: dicts with string keys and
   non-negative integer values, as a sequence of <<key, value>> items;
   a key is a sequence of characters. *)
Bodies == { <<>>,
            << <<<<"x">>, 1>> >>,
            << <<<<"a", "a">>, 10>>, <<<<"x">>, 1>> >> }

Calls == {[method |-> m, body |-> <<>>] : m \in {"get", "delete"}}
            \cup {[method |-> m, body |-> b] : m \in {"post", "put"}, b \in Bodies}

(* Responses of the token endpoint: a status, and a body that is either not
   JSON at all, a JSON object without the expected keys, or the token grant. *)
TokenStatuses == {200, 401, 500}
TokenResponses ==
    {[status |-> s, form |-> f, access_token |-> None, expires_in |-> 0] :
        s \in TokenStatuses, f \in {"notjson", "nokeys"}}
    \cup {[status |-> s, form |-> "token", access_token |-> a, expires_in |-> e] :
        s \in TokenStatuses, a \in Tokens, e \in 0..MaxExpires}

ResourceStatuses == {200, 304, 400, 401, 403, 409, 500}
ResourceResponses == {[status |-> s, content |-> c] : s \in ResourceStatuses, c \in Contents}

----------------------------------------------------------------------------
(* Pure functions of the client *)

(* datetime arithmetic of is_access_token_valid: requested_at + expires_in > now *)
TokenValidAt(token, t) == (token.requested_at + token.expires_in) > t

is_access_token_valid == TokenValidAt(access_token, now)

(* get_authorization_header: built from the token stored at the moment of the call *)
get_authorization_header ==
    [h \in {"content-type", "Authorization"} |->
        IF h = "content-type" THEN <<"application/json">>
                              ELSE <<"Bearer", access_token.access_token>>]

(* requests' Response.raise_for_status: HTTPError for 4xx and 5xx, nothing otherwise *)
raise_for_status(response) ==
    IF (400 <= response.status /\ response.status < 500)
         \/ (500 <= response.status /\ response.status < 600)
    THEN [kind |-> "HTTPError", response |-> response]
    ELSE [kind |-> "None"]

(* The mutant of validate_response: 409 is not singled out *)
validate_response_only400(response) ==
    IF response.status \in {400}
    THEN [kind |-> "ValueError", args |-> response.content]
    ELSE raise_for_status(response)

(* The mutant of validate_response: the status is never checked after 400/409 *)
validate_response_no_raise(response) ==
    IF response.status \in {400, 409}
    THEN [kind |-> "ValueError", args |-> response.content]
    ELSE [kind |-> "None"]

validate_response(response) ==
    IF response.status \in {400, 409}
    THEN [kind |-> "ValueError", args |-> response.content]
    ELSE raise_for_status(response)

(* The mutant of fetch_access_token: r.raise_for_status() is left out *)
fetch_result_unchecked(r, req_at) ==
    IF r.form = "notjson"
    THEN [kind |-> "ValueError", args |-> "No JSON object could be decoded"]
    ELSE IF r.form = "nokeys"
    THEN [kind |-> "KeyError", args |-> "access_token"]
    ELSE [kind |-> "return",
          value |-> [access_token |-> r.access_token,
                     expires_in |-> r.expires_in,
                     requested_at |-> req_at]]

(* Body of fetch_access_token after the response arrived: r.json(), then
   r.raise_for_status(), then the dict built from the parsed body. *)
fetch_result(r, req_at) ==
    IF r.form = "notjson"
    THEN [kind |-> "ValueError", args |-> "No JSON object could be decoded"]
    ELSE IF raise_for_status(r).kind # "None"
    THEN [kind |-> "HTTPError", response |-> r]
    ELSE IF r.form = "nokeys"
    THEN [kind |-> "KeyError", args |-> "access_token"]
    ELSE [kind |-> "return",
          value |-> [access_token |-> r.access_token,
                     expires_in |-> r.expires_in,
                     requested_at |-> req_at]]

----------------------------------------------------------------------------
(* json.dumps on the bodies above, as a sequence of characters *)

Digit(d) == CASE d = 0 -> "0" [] d = 1 -> "1" [] d = 2 -> "2" [] d = 3 -> "3"
              [] d = 4 -> "4" [] d = 5 -> "5" [] d = 6 -> "6" [] d = 7 -> "7"
              [] d = 8 -> "8" [] d = 9 -> "9"

RECURSIVE IntToChars(_)
IntToChars(n) == IF n < 10 THEN <<Digit(n)>>
                 ELSE IntToChars(n \div 10) \o <<Digit(n % 10)>>

JsonString(chars) == <<"\"">> \o chars \o <<"\"">>

JsonItem(item) == JsonString(item[1]) \o <<":", " ">> \o IntToChars(item[2])

RECURSIVE JsonItems(_)
JsonItems(items) ==
    IF items = <<>> THEN <<>>
    ELSE IF Len(items) = 1 THEN JsonItem(items[1])
    ELSE JsonItem(items[1]) \o <<",", " ">> \o JsonItems(Tail(items))

json_dumps(body) == <<"{">> \o JsonItems(body) \o <<"}">>

----------------------------------------------------------------------------
(* gzip.GzipFile(mode='wb'): a single-member stream made of the header
   written when the file is opened, the deflated data, and the trailer
   (CRC and size; 32-bit fields, never reached by the payloads here)
   written by close().  Deflate is modelled
   as run-length coding and the CRC as a sum of character codes: both keep
   what matters here, that the stream is not the data and that decoding
   checks the trailer. *)

Ord(c) == CASE c = "{" -> 123 [] c = "}" -> 125 [] c = "\"" -> 34 [] c = ":" -> 58
            [] c = "," -> 44 [] c = " " -> 32 [] c = "x" -> 120 [] c = "a" -> 97
            [] c = "0" -> 48 [] c = "1" -> 49 [] c = "2" -> 50 [] c = "3" -> 51
            [] c = "4" -> 52 [] c = "5" -> 53 [] c = "6" -> 54 [] c = "7" -> 55
            [] c = "8" -> 56 [] c = "9" -> 57

RECURSIVE Crc(_)
Crc(data) == IF data = <<>> THEN 0 ELSE Ord(Head(data)) + Crc(Tail(data))

RECURSIVE Deflate(_)
Deflate(data) ==
    IF data = <<>> THEN <<>>
    ELSE LET rest == Deflate(Tail(data))
         IN  IF rest # <<>> /\ rest[1][2] = Head(data)
             THEN <<<<rest[1][1] + 1, Head(data)>>>> \o Tail(rest)
             ELSE <<<<1, Head(data)>>>> \o rest

GzipHeader(mtime) == <<31, 139, 8, 0, mtime, 2, 255>>

(* The mutant of _gzip_encode: the buffer is read before f.close() *)
gzip_encode_unclosed(data, mtime) ==
    [header |-> GzipHeader(mtime), deflated |-> <<>>, trailer |-> <<>>]

gzip_encode(data, mtime) ==
    [header |-> GzipHeader(mtime),
     deflated |-> Deflate(data),
     trailer |-> <<Crc(data), Len(data)>>]

----------------------------------------------------------------------------
(* Requests built by the four resource calls, from the state at that moment *)

get_request(c) ==
    [method |-> "get", headers |-> get_authorization_header, data |-> <<>>]

delete_request(c) ==
    [method |-> "delete", headers |-> get_authorization_header, data |-> <<>>]

WithGzipHeader(headers) ==
    [h \in DOMAIN headers \cup {"content-encoding"} |->
        IF h = "content-encoding" THEN <<"gzip">> ELSE headers[h]]

post_request(c) ==
    IF compression_enabled
    THEN [method |-> "post", headers |-> WithGzipHeader(get_authorization_header),
          data |-> gzip_encode(json_dumps(c.body), now)]
    ELSE [method |-> "post", headers |-> get_authorization_header,
          data |-> json_dumps(c.body)]

put_request(c) ==
    IF compression_enabled
    THEN [method |-> "put", headers |-> WithGzipHeader(get_authorization_header),
          data |-> gzip_encode(json_dumps(c.body), now)]
    ELSE [method |-> "put", headers |-> get_authorization_header,
          data |-> json_dumps(c.body)]

BuildRequest(c) ==
    CASE c.method = "get" -> get_request(c)
      [] c.method = "post" -> post_request(c)
      [] c.method = "put" -> put_request(c)
      [] c.method = "delete" -> delete_request(c)

----------------------------------------------------------------------------
(* State machine *)

Init ==
    /\ now = 0
    /\ obj = "none"
    /\ args = NoArgs
    /\ head_sent = FALSE
    /\ compression_enabled = TRUE
    /\ access_token = NoToken
    /\ grant = NoGrant
    /\ pc = [t \in Threads |-> IF t = Main THEN "new" ELSE "idle"]
    /\ call = [t \in Threads |-> NoCall]
    /\ requested_at = [t \in Threads |-> 0]
    /\ token_resp = [t \in Threads |-> NoResponse]
    /\ ret = [t \in Threads |-> NoToken]
    /\ seen = [t \in Threads |-> NoSeen]
    /\ token_reqs = [t \in Threads |-> NoTokenReqs]
    /\ sent = [t \in Threads |-> NoRequest]
    /\ bearer = [t \in Threads |-> "unused"]
    /\ resp = [t \in Threads |-> NoResponse]
    /\ result = [t \in Threads |-> NoResult]
    /\ double_refresh = FALSE

Locals == <<call, requested_at, token_resp, ret, seen, token_reqs, sent, bearer, resp, result>>
Fields == <<compression_enabled, access_token, grant, double_refresh>>

Raise(t, kind, msg) ==
    /\ result' = [result EXCEPT ![t] = [kind |-> kind, args |-> msg]]
    /\ pc' = [pc EXCEPT ![t] = "done"]

(* The mutant of __init__: the host is probed before the credentials are checked *)
ConstructProbeFirst(cid, sec, reach, comp) ==
    /\ pc[Main] = "new" /\ obj = "none"
    /\ args' = [client_id |-> cid, client_secret |-> sec, reachable |-> reach]
    /\ call' = [call EXCEPT ![Main] = [method |-> "__init__", body |-> <<>>]]
    /\ head_sent' = TRUE
    /\ IF ~reach
       THEN /\ Raise(Main, "ValueError", "Host is not reachable")
            /\ obj' = "raised"
            /\ UNCHANGED compression_enabled
       ELSE IF Falsy(cid)
       THEN /\ Raise(Main, "ValueError", "client_id cannot be null or empty.")
            /\ obj' = "raised"
            /\ UNCHANGED compression_enabled
       ELSE IF Falsy(sec)
       THEN /\ Raise(Main, "ValueError", "client_secret cannot be null or empty.")
            /\ obj' = "raised"
            /\ UNCHANGED compression_enabled
       ELSE /\ compression_enabled' = comp
            /\ pc' = [pc EXCEPT ![Main] = "fetch"]
            /\ UNCHANGED <<obj, result>>
    /\ UNCHANGED <<now, access_token, grant, double_refresh, requested_at, token_resp,
                   ret, seen, token_reqs, sent, bearer, resp>>

(* __init__ up to the call of fetch_access_token (lines 26-43) *)
Construct(cid, sec, reach, comp) ==
    /\ pc[Main] = "new" /\ obj = "none"
    /\ args' = [client_id |-> cid, client_secret |-> sec, reachable |-> reach]
    /\ call' = [call EXCEPT ![Main] = [method |-> "__init__", body |-> <<>>]]
    /\ IF Falsy(cid)
       THEN /\ Raise(Main, "ValueError", "client_id cannot be null or empty.")
            /\ obj' = "raised"
            /\ UNCHANGED <<head_sent, compression_enabled>>
       ELSE IF Falsy(sec)
       THEN /\ Raise(Main, "ValueError", "client_secret cannot be null or empty.")
            /\ obj' = "raised"
            /\ UNCHANGED <<head_sent, compression_enabled>>
       ELSE /\ head_sent' = TRUE
            /\ IF ~reach
               THEN /\ Raise(Main, "ValueError", "Host is not reachable")
                    /\ obj' = "raised"
                    /\ UNCHANGED compression_enabled
               ELSE /\ compression_enabled' = comp
                    /\ pc' = [pc EXCEPT ![Main] = "fetch"]
                    /\ UNCHANGED <<obj, result>>
    /\ UNCHANGED <<now, access_token, grant, double_refresh, requested_at, token_resp,
                   ret, seen, token_reqs, sent, bearer, resp>>

(* A caller enters get, post, put or delete: the authenticate wrapper starts *)
Call(t, c) ==
    /\ obj = "ready" /\ pc[t] = "idle"
    /\ call' = [call EXCEPT ![t] = c]
    /\ pc' = [pc EXCEPT ![t] = "check"]
    /\ UNCHANGED <<now, obj, args, head_sent, Fields, requested_at, token_resp, ret,
                   seen, token_reqs, sent, bearer, resp, result>>

(* The mutant of authenticate's check: the token is refreshed when it is still valid *)
AuthCheckInverted(t) ==
    /\ pc[t] = "check"
    /\ seen' = [seen EXCEPT ![t] = [checked |-> TRUE, valid |-> is_access_token_valid,
                                    token |-> access_token, at |-> now]]
    /\ pc' = [pc EXCEPT ![t] = IF is_access_token_valid THEN "fetch" ELSE "build"]
    /\ UNCHANGED <<now, obj, args, head_sent, Fields, call, requested_at, token_resp,
                   ret, token_reqs, sent, bearer, resp, result>>

(* authenticate, line 10: if not args[0].is_access_token_valid() *)
AuthCheck(t) ==
    /\ pc[t] = "check"
    /\ seen' = [seen EXCEPT ![t] = [checked |-> TRUE, valid |-> is_access_token_valid,
                                    token |-> access_token, at |-> now]]
    /\ pc' = [pc EXCEPT ![t] = IF is_access_token_valid THEN "build" ELSE "fetch"]
    /\ UNCHANGED <<now, obj, args, head_sent, Fields, call, requested_at, token_resp,
                   ret, token_reqs, sent, bearer, resp, result>>

(* fetch_access_token, lines 50-52: requested_at is taken, the request leaves *)
FetchSend(t) ==
    /\ pc[t] = "fetch"
    /\ requested_at' = [requested_at EXCEPT ![t] = now]
    /\ token_reqs' = [token_reqs EXCEPT ![t] = [n |-> @.n + 1, sent_at |-> now]]
    /\ double_refresh' = (double_refresh \/ \E u \in Threads \ {t} :
                              /\ pc[u] = "await_token"
                              /\ seen[u].token = access_token /\ seen[t].token = access_token)
    /\ pc' = [pc EXCEPT ![t] = "await_token"]
    /\ UNCHANGED <<now, obj, args, head_sent, compression_enabled, access_token, grant, call,
                   token_resp, ret, seen, sent, bearer, resp, result>>

(* The mutant of fetch_access_token: requested_at is taken when the response arrives *)
FetchRecvLate(t, r) ==
    /\ pc[t] = "await_token"
    /\ token_resp' = [token_resp EXCEPT ![t] = r]
    /\ LET res == fetch_result(r, now)
       IN  IF res.kind = "return"
           THEN /\ ret' = [ret EXCEPT ![t] = res.value]
                /\ pc' = [pc EXCEPT ![t] = "assign"]
                /\ UNCHANGED <<obj, result>>
           ELSE /\ result' = [result EXCEPT ![t] = res]
                /\ pc' = [pc EXCEPT ![t] = "done"]
                /\ obj' = IF call[t].method = "__init__" THEN "raised" ELSE obj
                /\ UNCHANGED ret
    /\ UNCHANGED <<now, args, head_sent, Fields, call, requested_at, seen, token_reqs,
                   sent, bearer, resp>>

(* The mutant of fetch_access_token: it clears self.access_token itself when it fails *)
FetchRecvClearing(t, r) ==
    /\ pc[t] = "await_token"
    /\ token_resp' = [token_resp EXCEPT ![t] = r]
    /\ LET res == fetch_result(r, requested_at[t])
       IN  IF res.kind = "return"
           THEN /\ ret' = [ret EXCEPT ![t] = res.value]
                /\ pc' = [pc EXCEPT ![t] = "assign"]
                /\ UNCHANGED <<obj, result, access_token>>
           ELSE /\ result' = [result EXCEPT ![t] = res]
                /\ pc' = [pc EXCEPT ![t] = "done"]
                /\ obj' = IF call[t].method = "__init__" THEN "raised" ELSE obj
                /\ access_token' = NoToken
                /\ UNCHANGED ret
    /\ UNCHANGED <<now, args, head_sent, compression_enabled, grant, double_refresh, call,
                   requested_at, seen, token_reqs, sent, bearer, resp>>

(* fetch_access_token, lines 53-60: the response arrives; the function returns
   the token record or raises, and a raise leaves __init__ or the wrapped call *)
FetchRecv(t, r) ==
    /\ pc[t] = "await_token"
    /\ token_resp' = [token_resp EXCEPT ![t] = r]
    /\ LET res == fetch_result(r, requested_at[t])
       IN  IF res.kind = "return"
           THEN /\ ret' = [ret EXCEPT ![t] = res.value]
                /\ pc' = [pc EXCEPT ![t] = "assign"]
                /\ UNCHANGED <<obj, result>>
           ELSE /\ result' = [result EXCEPT ![t] = res]
                /\ pc' = [pc EXCEPT ![t] = "done"]
                /\ obj' = IF call[t].method = "__init__" THEN "raised" ELSE obj
                /\ UNCHANGED ret
    /\ UNCHANGED <<now, args, head_sent, Fields, call, requested_at, seen, token_reqs,
                   sent, bearer, resp>>

GrantOf(t) == [sent_at |-> token_reqs[t].sent_at, expires_in |-> token_resp[t].expires_in]

(* __init__, line 44: self.access_token = self.fetch_access_token(); __init__ returns *)
InitAssign(t) ==
    /\ pc[t] = "assign" /\ call[t].method = "__init__"
    /\ access_token' = ret[t]
    /\ grant' = GrantOf(t)
    /\ obj' = "ready"
    /\ result' = [result EXCEPT ![t] = [kind |-> "return", value |-> "APIManager"]]
    /\ pc' = [pc EXCEPT ![t] = "done"]
    /\ UNCHANGED <<now, args, head_sent, compression_enabled, double_refresh, call,
                   requested_at, token_resp, ret, seen, token_reqs, sent, bearer, resp>>

(* The mutant of authenticate: the fetched token is not stored *)
AuthAssignDropped(t) ==
    /\ pc[t] = "assign" /\ call[t].method # "__init__"
    /\ pc' = [pc EXCEPT ![t] = "build"]
    /\ UNCHANGED <<now, obj, args, head_sent, Fields, call, requested_at, token_resp,
                   ret, seen, token_reqs, sent, bearer, resp, result>>

(* authenticate, line 11: args[0].access_token = args[0].fetch_access_token() *)
AuthAssign(t) ==
    /\ pc[t] = "assign" /\ call[t].method # "__init__"
    /\ access_token' = ret[t]
    /\ grant' = GrantOf(t)
    /\ pc' = [pc EXCEPT ![t] = "build"]
    /\ UNCHANGED <<now, obj, args, head_sent, compression_enabled, double_refresh, call,
                   requested_at, token_resp, ret, seen, token_reqs, sent, bearer, resp, result>>

(* What the token in the header is worth at the moment the request is built:
   valid, expired although it is the token the check looked at, or expired
   and not the token the check looked at *)
BearerState(t) ==
    IF is_access_token_valid THEN "valid"
    ELSE IF access_token = seen[t].token THEN "expired" ELSE "replaced"

(* authenticate, line 12, into the wrapped method: the headers are built from
   the stored token and the request leaves *)
Send(t) ==
    /\ pc[t] = "build"
    /\ sent' = [sent EXCEPT ![t] = BuildRequest(call[t])]
    /\ bearer' = [bearer EXCEPT ![t] = BearerState(t)]
    /\ pc' = [pc EXCEPT ![t] = "await_resp"]
    /\ UNCHANGED <<now, obj, args, head_sent, Fields, call, requested_at, token_resp,
                   ret, seen, token_reqs, resp, result>>

(* The response arrives: validate_response, then return response *)
Recv(t, r) ==
    /\ pc[t] = "await_resp"
    /\ resp' = [resp EXCEPT ![t] = r]
    /\ result' = [result EXCEPT ![t] =
          IF validate_response(r).kind = "None"
          THEN [kind |-> "return", value |-> r]
          ELSE validate_response(r)]
    /\ pc' = [pc EXCEPT ![t] = "done"]
    /\ UNCHANGED <<now, obj, args, head_sent, Fields, call, requested_at, token_resp,
                   ret, seen, token_reqs, sent, bearer>>

(* The caller has the return value or the exception; the frame is gone *)
Return(t) ==
    /\ pc[t] = "done"
    /\ pc' = [pc EXCEPT ![t] = "idle"]
    /\ call' = [call EXCEPT ![t] = NoCall]
    /\ requested_at' = [requested_at EXCEPT ![t] = 0]
    /\ token_resp' = [token_resp EXCEPT ![t] = NoResponse]
    /\ ret' = [ret EXCEPT ![t] = NoToken]
    /\ seen' = [seen EXCEPT ![t] = NoSeen]
    /\ token_reqs' = [token_reqs EXCEPT ![t] = NoTokenReqs]
    /\ sent' = [sent EXCEPT ![t] = NoRequest]
    /\ bearer' = [bearer EXCEPT ![t] = "unused"]
    /\ resp' = [resp EXCEPT ![t] = NoResponse]
    /\ result' = [result EXCEPT ![t] = NoResult]
    /\ UNCHANGED <<now, obj, args, head_sent, Fields>>

(* The wall clock advances *)
Tick ==
    /\ now < MaxTime
    /\ now' = now + 1
    /\ UNCHANGED <<obj, args, head_sent, Fields, pc, Locals>>

(* Sequential use: one caller *)
Next ==
    \/ \E cid \in ClientIds, sec \in ClientSecrets, reach \in BOOLEAN, comp \in BOOLEAN :
          Construct(cid, sec, reach, comp)
    \/ \E c \in Calls : Call(Main, c)
    \/ AuthCheck(Main)
    \/ FetchSend(Main)
    \/ \E r \in TokenResponses : FetchRecv(Main, r)
    \/ InitAssign(Main)
    \/ AuthAssign(Main)
    \/ Send(Main)
    \/ \E r \in ResourceResponses : Recv(Main, r)
    \/ Return(Main)
    \/ Tick

Spec == Init /\ [][Next]_vars

(* Concurrent use: the threads share the constructed object.  The calls and
   responses are a part of those above; the interleavings are what matters. *)
ConcCalls == {[method |-> "get", body |-> <<>>]}
ConcTokenResponses == {r \in TokenResponses :
                          r.status = 200 /\ r.form = "token" /\ r.access_token = "T1"}
ConcResourceResponses == {[status |-> 200, content |-> "c1"]}

NextConc ==
    \/ \E reach \in BOOLEAN : Construct("id", "secret", reach, TRUE)
    \/ \E t \in Threads, c \in ConcCalls : Call(t, c)
    \/ \E t \in Threads : AuthCheck(t)
    \/ \E t \in Threads : FetchSend(t)
    \/ \E t \in Threads, r \in ConcTokenResponses : FetchRecv(t, r)
    \/ InitAssign(Main)
    \/ \E t \in Threads : AuthAssign(t)
    \/ \E t \in Threads : Send(t)
    \/ \E t \in Threads, r \in ConcResourceResponses : Recv(t, r)
    \/ \E t \in Threads : Return(t)
    \/ Tick

SpecConc == Init /\ [][NextConc]_vars

(* validate_response alone, over the whole range of status codes *)
InitValidate ==
    /\ now = 0
    /\ obj = "ready"
    /\ args = [client_id |-> "id", client_secret |-> "secret", reachable |-> TRUE]
    /\ head_sent = TRUE
    /\ compression_enabled = TRUE
    /\ access_token = [access_token |-> "T1", expires_in |-> MaxExpires, requested_at |-> 0]
    /\ grant = [sent_at |-> 0, expires_in |-> MaxExpires]
    /\ pc = [t \in Threads |-> IF t = Main THEN "await_resp" ELSE "idle"]
    /\ call = [t \in Threads |-> IF t = Main THEN [method |-> "get", body |-> <<>>] ELSE NoCall]
    /\ requested_at = [t \in Threads |-> 0]
    /\ token_resp = [t \in Threads |-> NoResponse]
    /\ ret = [t \in Threads |-> NoToken]
    /\ seen = [t \in Threads |->
                  IF t = Main THEN [checked |-> TRUE, valid |-> TRUE, token |-> access_token, at |-> 0]
                              ELSE NoSeen]
    /\ token_reqs = [t \in Threads |-> NoTokenReqs]
    /\ sent = [t \in Threads |-> IF t = Main THEN get_request(call[Main]) ELSE NoRequest]
    /\ bearer = [t \in Threads |-> IF t = Main THEN "valid" ELSE "unused"]
    /\ resp = [t \in Threads |-> NoResponse]
    /\ result = [t \in Threads |-> NoResult]
    /\ double_refresh = FALSE

StatusCodes == 100..MaxStatus

NextValidate ==
    \E s \in StatusCodes, c \in Contents : Recv(Main, [status |-> s, content |-> c])

SpecValidate == InitValidate /\ [][NextValidate]_vars

----------------------------------------------------------------------------
(* Properties *)

Expired(t) == seen[t].checked /\ ~seen[t].valid
IsFailure(status) == 400 <= status /\ status < 600
ResourceMethods == {"get", "post", "put", "delete"}

RECURSIVE Inflate(_)
Inflate(runs) ==
    IF runs = <<>> THEN <<>>
    ELSE [i \in 1..runs[1][1] |-> runs[1][2]] \o Inflate(Tail(runs))

GzipError == <<"not a gzip stream">>

(* What the receiving end does with the payload of a content-encoding: gzip request *)
gzip_decode(stream) ==
    IF stream.header[1] = 31 /\ stream.header[2] = 139 /\ stream.header[3] = 8
         /\ Len(stream.trailer) = 2
         /\ stream.trailer[1] = Crc(Inflate(stream.deflated))
         /\ stream.trailer[2] = Len(Inflate(stream.deflated))
    THEN Inflate(stream.deflated)
    ELSE GzipError

(* C1: in sequential use, a call that found the token expired issues exactly
   one token request, and when its resource request leaves, the result of
   that request is the stored token and is the token in the Bearer header. *)
C1_RefreshBeforeRequest ==
    \A t \in Threads :
        Expired(t) =>
            /\ pc[t] \in {"await_token", "assign", "build", "await_resp", "done"}
                  => token_reqs[t].n = 1
            /\ pc[t] \in {"build", "await_resp"} \/ sent[t] # NoRequest
                  => /\ access_token = ret[t]
                     /\ ret[t].requested_at = token_reqs[t].sent_at
                     /\ ret[t].access_token = token_resp[t].access_token
            /\ sent[t] # NoRequest
                  => sent[t].headers["Authorization"] = <<"Bearer", ret[t].access_token>>

C1_Witness ==
    /\ pc[Main] = "await_resp" /\ Expired(Main)
    /\ seen[Main].token.access_token = "T1"
    /\ sent[Main].headers["Authorization"] = <<"Bearer", "T2">>

(* C2 as stated: is_access_token_valid is true exactly when
   now < requested_at + expires_in, the check changes no client state, and
   it is true right after every successful fetch is stored. *)
C2_Original ==
    /\ [](obj = "ready" => (is_access_token_valid <=> now < grant.sent_at + grant.expires_in))
    /\ [][\A t \in Threads : (pc[t] = "check" /\ pc'[t] # "check")
              => UNCHANGED <<obj, compression_enabled, access_token>>]_vars
    /\ [][\A t \in Threads : (pc[t] = "assign" /\ pc'[t] # "assign")
              => is_access_token_valid']_vars

(* C2 amended: is_access_token_valid is true exactly when now is before the
   instant the token request left plus the expires_in the endpoint granted,
   the check changes no client state, and right after a successful fetch is
   stored it is true exactly when the response took less than expires_in. *)
C2_Amended ==
    /\ [](obj = "ready" => (is_access_token_valid <=> now < grant.sent_at + grant.expires_in))
    /\ [][\A t \in Threads : (pc[t] = "check" /\ pc'[t] # "check")
              => UNCHANGED <<obj, compression_enabled, access_token>>]_vars
    /\ [][\A t \in Threads : (pc[t] = "assign" /\ pc'[t] # "assign")
              => (is_access_token_valid' <=>
                     now' - token_reqs[t].sent_at < token_resp[t].expires_in)]_vars

C2_Witness ==
    /\ obj = "ready" /\ pc[Main] = "build" /\ access_token = ret[Main]
    /\ access_token.expires_in > 0
    /\ now = access_token.requested_at + access_token.expires_in
    /\ ~is_access_token_valid

(* C3: a resource call answered 400 or 409 raises ValueError carrying the
   response body; answered 401, 403 or 500 it raises HTTPError; in neither
   case is the response returned. *)
C3_ErrorKinds ==
    \A t \in Threads :
        (pc[t] = "done" /\ resp[t] # NoResponse /\ call[t].method \in ResourceMethods) =>
            /\ resp[t].status \in {400, 409}
                  => result[t] = [kind |-> "ValueError", args |-> resp[t].content]
            /\ resp[t].status \in {401, 403, 500}
                  => /\ result[t].kind = "HTTPError"
                     /\ result[t].response = resp[t]
            /\ resp[t].status \in {400, 409, 401, 403, 500} => result[t].kind # "return"

C3_Witness ==
    /\ pc[Main] = "done" /\ call[Main].method = "delete"
    /\ resp[Main] = [status |-> 409, content |-> "c2"]
    /\ result[Main] = [kind |-> "ValueError", args |-> "c2"]

(* C4 as stated: 400 and 409 raise ValueError, every other status outside
   200..299 raises HTTPError, and the call returns normally if and only if
   the status is in 200..299. *)
C4_Original ==
    (pc[Main] = "done" /\ resp[Main] # NoResponse) =>
        /\ resp[Main].status \in {400, 409} => result[Main].kind = "ValueError"
        /\ (resp[Main].status \notin {400, 409} /\ resp[Main].status \notin 200..299)
              => result[Main].kind = "HTTPError"
        /\ result[Main].kind = "return" <=> resp[Main].status \in 200..299

(* C4 amended: 400 and 409 raise ValueError with the body, every other
   status in 400..599 raises HTTPError, and the call returns normally if and
   only if the status is outside 400..599 (1xx, 2xx, 3xx, 600 and above). *)
C4_Amended ==
    (pc[Main] = "done" /\ resp[Main] # NoResponse) =>
        /\ resp[Main].status \in {400, 409}
              => result[Main] = [kind |-> "ValueError", args |-> resp[Main].content]
        /\ (resp[Main].status \notin {400, 409} /\ IsFailure(resp[Main].status))
              => result[Main] = [kind |-> "HTTPError", response |-> resp[Main]]
        /\ result[Main].kind = "return" <=> ~IsFailure(resp[Main].status)
        /\ result[Main].kind = "return" => result[Main].value = resp[Main]

C4_Witness ==
    /\ pc[Main] = "done" /\ resp[Main].status = 304 /\ result[Main].kind = "return"

CtorReturns == pc[Main] = "assign" /\ call[Main].method = "__init__" /\ pc'[Main] = "done"

(* C5 as stated: whenever __init__ returns without raising, the stored token
   is valid at that moment. *)
C5_Original == [][CtorReturns => is_access_token_valid']_vars

(* C5 amended: whenever __init__ returns without raising, the token endpoint
   answered without a failure status and the stored token is the complete
   record of its answer, requested_at being the instant the request left; it
   is valid at that moment exactly when the answer took less than expires_in.
   Otherwise __init__ raises, nothing is stored and no call is ever made. *)
C5_Amended ==
    /\ [][CtorReturns =>
            /\ obj' = "ready"
            /\ ~IsFailure(token_resp[Main].status)
            /\ access_token' = [access_token |-> token_resp[Main].access_token,
                                expires_in |-> token_resp[Main].expires_in,
                                requested_at |-> token_reqs[Main].sent_at]
            /\ is_access_token_valid' <=>
                  now' - token_reqs[Main].sent_at < token_resp[Main].expires_in]_vars
    /\ [](obj # "ready" =>
            /\ access_token = NoToken
            /\ \A t \in Threads : call[t].method \notin ResourceMethods)
    /\ [](obj = "raised" => pc[Main] \in {"done", "idle"})

C5_Witness ==
    /\ obj = "ready" /\ pc[Main] = "done" /\ call[Main].method = "__init__"
    /\ result[Main].kind = "return"
    /\ now > access_token.requested_at
    /\ access_token.expires_in > 0
    /\ ~is_access_token_valid

(* C6: whenever the token endpoint answers with a failure status,
   fetch_access_token raises the HTTP error for that status, whatever the body. *)
C6_Claim ==
    \A t \in Threads :
        (pc[t] = "done" /\ token_resp[t] # NoResponse /\ IsFailure(token_resp[t].status))
            => result[t].kind = "HTTPError"

(* C7: __init__ called with an empty or null client_id or client_secret
   raises ValueError before the host is probed and before any token request,
   whether or not the host is reachable. *)
C7_CredentialsFirst ==
    (pc[Main] # "new" /\ (Falsy(args.client_id) \/ Falsy(args.client_secret))) =>
        /\ obj = "raised"
        /\ ~head_sent
        /\ \A t \in Threads : token_reqs[t].n = 0 /\ sent[t] = NoRequest
        /\ access_token = NoToken
        /\ pc[Main] \in {"done", "idle"}
        /\ pc[Main] = "done" =>
              /\ result[Main].kind = "ValueError"
              /\ result[Main].args =
                    IF Falsy(args.client_id) THEN "client_id cannot be null or empty."
                                             ELSE "client_secret cannot be null or empty."

C7_Witness ==
    /\ pc[Main] = "done" /\ args.client_id = "id" /\ args.client_secret = None
    /\ args.reachable
    /\ result[Main] = [kind |-> "ValueError", args |-> "client_secret cannot be null or empty."]

(* C8: a post or put request carries content-encoding: gzip and a payload
   that is not the JSON text but gzip-decodes to it when compression is
   enabled, and no content-encoding header and the JSON text itself when it
   is not; get and delete requests never carry content-encoding. *)
C8_Compression ==
    \A t \in Threads :
        sent[t] # NoRequest =>
            /\ sent[t].method = call[t].method
            /\ (sent[t].method \in {"post", "put"} /\ compression_enabled) =>
                  /\ "content-encoding" \in DOMAIN sent[t].headers
                  /\ sent[t].headers["content-encoding"] = <<"gzip">>
                  /\ gzip_decode(sent[t].data) = json_dumps(call[t].body)
            /\ (sent[t].method \in {"post", "put"} /\ ~compression_enabled) =>
                  /\ "content-encoding" \notin DOMAIN sent[t].headers
                  /\ sent[t].data = json_dumps(call[t].body)
            /\ (sent[t].method \in {"post", "put"} /\ call[t].body = << <<<<"x">>, 1>> >>) =>
                  (IF compression_enabled THEN gzip_decode(sent[t].data) ELSE sent[t].data)
                      = <<"{", "\"", "x", "\"", ":", " ", "1", "}">>
            /\ sent[t].method \in {"get", "delete"} =>
                  "content-encoding" \notin DOMAIN sent[t].headers

C8_Witness ==
    /\ pc[Main] = "await_resp" /\ sent[Main].method = "put" /\ compression_enabled
    /\ Len(call[Main].body) = 2
    /\ Len(sent[Main].data.deflated) < Len(json_dumps(call[Main].body))
    /\ gzip_decode(sent[Main].data) = json_dumps(call[Main].body)

RefreshFails(t) == pc[t] = "await_token" /\ call[t].method # "__init__" /\ pc'[t] = "done"

(* C9: fetch_access_token never writes the stored token; only __init__ and
   authenticate assign it, with the complete record fetch returned.  When the
   refresh of an expired token fails, the call raises with no resource
   request sent and a single token request made, and the stored token is as
   the call found it: still expired, so the next call refreshes again. *)
C9_FailedRefresh ==
    /\ [][\A t \in Threads : pc[t] \in {"fetch", "await_token"}
              => access_token' = access_token]_vars
    /\ [][access_token' # access_token
              => \E t \in Threads : pc[t] = "assign" /\ access_token' = ret[t]
                                      /\ DOMAIN ret[t] = DOMAIN NoToken]_vars
    /\ [][\A t \in Threads : RefreshFails(t) =>
              /\ access_token' = access_token
              /\ sent'[t] = NoRequest
              /\ token_reqs'[t].n = 1
              /\ result'[t].kind \in {"HTTPError", "ValueError", "KeyError"}]_vars
    /\ [](\A t \in Threads :
              (pc[t] = "done" /\ Expired(t) /\ ret[t] = NoToken) =>
                  /\ access_token = seen[t].token
                  /\ ~is_access_token_valid
                  /\ sent[t] = NoRequest)

C9_Witness ==
    /\ pc[Main] = "done" /\ call[Main].method = "post" /\ Expired(Main)
    /\ result[Main].kind = "HTTPError"
    /\ sent[Main] = NoRequest /\ token_reqs[Main].n = 1
    /\ access_token = seen[Main].token /\ access_token.access_token = "T2"

(* C10: with two threads and no lock, two token requests are in flight
   together only when both threads found the token expired before either
   stored a new one, and a thread sends the very token its check found valid
   as an expired one only when the clock moved between the check and the
   send.  The witness shows that both do happen: two requests in flight
   together for the same expired token, and a token expiring between check
   and send. *)
C10_Races ==
    /\ \A t \in Threads, u \in Threads :
          (t # u /\ pc[t] = "await_token" /\ pc[u] = "await_token" /\ obj = "ready") =>
              /\ Expired(t) /\ Expired(u)
              /\ (seen[t].token = access_token /\ seen[u].token = access_token) => double_refresh
    /\ \A t \in Threads :
          (pc[t] = "await_resp" /\ seen[t].valid /\ bearer[t] = "expired") =>
              /\ sent[t].headers["Authorization"] = <<"Bearer", seen[t].token.access_token>>
              /\ now > seen[t].at

C10_Witness ==
    /\ double_refresh
    /\ \E t \in Threads : pc[t] = "await_resp" /\ seen[t].valid /\ bearer[t] = "expired"

====
